---- MODULE Spec2Model ----
(***************************************************************************)
(* A model of bp-std's address codec (address.rs), extended public keys   *)
(* and descriptors (xpub.rs) and batched derivation (derive.rs).          *)
(*                                                                         *)
(* Text is modelled by its structure: a string is a record saying what     *)
(* the bech32 and base58 alphabets make of it (the human readable part,    *)
(* the variant selected by the checksum constant and the 5-bit groups, or  *)
(* the bytes the base58 digits stand for).  The alphabet arithmetic and    *)
(* the hash and curve primitives are external to the repository; they are  *)
(* represented by small deterministic stand-ins that keep the properties   *)
(* the callers rely on.                                                    *)
(***************************************************************************)
EXTENDS Integers, Sequences, FiniteSets, TLC

VARIABLES op, arg, ret, pc, batch, index, count

vars == <<op, arg, ret, pc, batch, index, count>>

(***************************** results ************************************)

Ok(v) == [tag |-> "Ok", val |-> v]

Err(e) == [tag |-> "Err", err |-> e]

\* an abort of the program: a failed expect, slice bound or overflow check
Panic(m) == [tag |-> "Panic", msg |-> m]

(****************************** bytes *************************************)

Fill(n, b) == [i \in 1..n |-> b]

Ramp(n, a) == [i \in 1..n |-> (a + 37 * i) % 256]

SubSeqFrom(s, m) == SubSeq(s, m, Len(s))

Pow2(k) == CASE k = 0 -> 1 [] k = 1 -> 2 [] k = 2 -> 4 [] k = 3 -> 8
             [] k = 4 -> 16 [] k = 5 -> 32 [] k = 6 -> 64 [] k = 7 -> 128

\* bit k (0 = most significant) of a value of width w
BitOf(v, w, k) == (v \div Pow2(w - 1 - k)) % 2

\* the bits of a sequence of w-bit values, most significant first
ToBits(vals, w) ==
    [i \in 1..(w * Len(vals)) |-> BitOf(vals[((i - 1) \div w) + 1], w, (i - 1) % w)]

BitAt(bits, i) == IF i <= Len(bits) THEN bits[i] ELSE 0

RECURSIVE BitsVal(_, _, _)
\* the value of the w bits that start at position from (zero beyond the end)
BitsVal(bits, from, w) ==
    IF w = 0 THEN 0
    ELSE 2 * BitsVal(bits, from, w - 1) + BitAt(bits, from + w - 1)

(*************************** bech32 groups ********************************)

\* bech32::ToBase32::write_base32: 8-bit to 5-bit regrouping, the last group
\* padded with zero bits
ToBase32(bytes) ==
    LET bits == ToBits(bytes, 8)
        n    == (Len(bits) + 4) \div 5
    IN  [g \in 1..n |-> BitsVal(bits, 5 * (g - 1) + 1, 5)]

\* bech32::FromBase32::from_base32: 5-bit to 8-bit regrouping without padding;
\* five or more left-over bits, or a non-zero left-over bit, is InvalidPadding
FromBase32(data) ==
    LET bits == ToBits(data, 5)
        n    == Len(bits) \div 8
        rest == Len(bits) % 8
    IN  IF rest >= 5 \/ BitsVal(bits, 8 * n + 1, rest) # 0
        THEN Err([kind |-> "Bech32", detail |-> "InvalidPadding"])
        ELSE Ok([b \in 1..n |-> BitsVal(bits, 8 * (b - 1) + 1, 8)])

(******************************* text *************************************)

\* the variant a bech32 checksum constant selects
Variants == {"Bech32", "Bech32m"}

HrpLen(h) == CASE h \in {"a"} -> 1
               [] h \in {"bc", "tb", "BC", "TB"} -> 2
               [] h \in {"bcrt", "lnbc", "BCRT"} -> 4

\* a string with a valid bech32 or bech32m checksum; hrp as written
Bech32Str(hrp, variant, data) ==
    [kind |-> "bech32", hrp |-> hrp, variant |-> variant, data |-> data,
     bytes |-> <<>>, len |-> HrpLen(hrp) + 1 + Len(data) + 6]

\* base58 text of n bytes takes about n * log(256) / log(58) digits
Base58Len(bytes) == (Len(bytes) * 138) \div 100 + 1

\* a string of base58 digits standing for bytes (payload and checksum)
Base58Str(bytes) ==
    [kind |-> "base58", hrp |-> "", variant |-> "", data |-> <<>>,
     bytes |-> bytes, len |-> Base58Len(bytes)]

\* a string that is neither base58 digits nor checksummed bech32
OtherStr(n) ==
    [kind |-> "other", hrp |-> "", variant |-> "", data |-> <<>>,
     bytes |-> <<>>, len |-> n]

ToLowercase(h) == CASE h = "BC" -> "bc" [] h = "TB" -> "tb" [] h = "BCRT" -> "bcrt"
                    [] OTHER -> h

ToUppercase(h) == CASE h = "bc" -> "BC" [] h = "tb" -> "TB" [] h = "bcrt" -> "BCRT"
                    [] OTHER -> h

\* bech32::decode: the lower-cased human readable part, the 5-bit groups
\* without the checksum, and the variant
Bech32Decode(s) ==
    IF s.kind = "bech32"
    THEN Ok([hri |-> ToLowercase(s.hrp), payload |-> s.data, variant |-> s.variant])
    ELSE Err([kind |-> "Bech32", detail |-> "decode"])

RECURSIVE WeightedRange(_, _, _)
\* a position-weighted sum of bytes lo..hi, by halves
WeightedRange(bytes, lo, hi) ==
    IF lo > hi THEN 0
    ELSE IF lo = hi THEN ((lo * lo + 7 * lo + 1) * (bytes[lo] + 1)) % 65536
    ELSE LET mid == (lo + hi) \div 2
         IN  (WeightedRange(bytes, lo, mid) + WeightedRange(bytes, mid + 1, hi)) % 65536

\* the digest the stand-ins for the hash functions spread over their output
WeightedSum(bytes) == WeightedRange(bytes, 1, Len(bytes))

\* stand-in for the first four bytes of the double SHA-256 of a payload
Checksum(payload) ==
    LET w == WeightedSum(payload)
    IN  <<w % 256, w \div 256, (w + Len(payload)) % 256, (7 * w + 3) % 256>>

\* base58::encode_check: payload and 4-byte checksum in base58 digits
EncodeCheck(payload) == Base58Str(payload \o Checksum(payload))

\* base58::decode_check: base58 digits to bytes, the last 4 bytes verified
\* as the checksum of the rest and stripped
DecodeCheck(s) ==
    IF s.kind # "base58" THEN Err([kind |-> "BadByte"])
    ELSE IF Len(s.bytes) < 4 THEN Err([kind |-> "TooShort", n |-> Len(s.bytes)])
    ELSE LET body == SubSeq(s.bytes, 1, Len(s.bytes) - 4)
             sum  == SubSeqFrom(s.bytes, Len(s.bytes) - 3)
         IN  IF Checksum(body) # sum THEN Err([kind |-> "BadChecksum"])
             ELSE Ok(body)

(****************************** address ***********************************)

PUBKEY_ADDRESS_PREFIX_MAIN == 0

SCRIPT_ADDRESS_PREFIX_MAIN == 5

PUBKEY_ADDRESS_PREFIX_TEST == 111

SCRIPT_ADDRESS_PREFIX_TEST == 196

AddressNetwork == {"Mainnet", "Testnet", "Regtest"}

\* x coordinate of the output key of the address in test::display_from_str
FixtureKey ==
    <<165, 144, 217, 53, 37, 43, 19, 213, 25, 220, 75, 85, 131, 40, 3, 229,
      116, 113, 120, 176, 87, 71, 56, 201, 52, 78, 80, 90, 52, 187, 210, 144>>

\* x coordinate of the secp256k1 generator
GeneratorX ==
    <<121, 190, 102, 126, 249, 220, 187, 172, 85, 160, 98, 149, 206, 135, 11, 7,
      2, 155, 252, 219, 45, 206, 40, 217, 89, 242, 129, 91, 22, 248, 23, 152>>

\* stand-in for "x is the coordinate of a curve point": 00..00 is on no
\* point and ff..ff is not below the field prime; both keys above are valid
IsCurveX(x) == Len(x) = 32 /\ x[1] \notin {0, 255}

\* TaprootPk::from_byte_array: BIP340 validation of 32 bytes
TaprootPk_from_byte_array(key) ==
    IF IsCurveX(key) THEN Ok(key) ELSE Err([kind |-> "WrongPublicKeyData"])

Pkh(hash) == [tag |-> "Pkh", bytes |-> hash]

Sh(hash) == [tag |-> "Sh", bytes |-> hash]

Wpkh(hash) == [tag |-> "Wpkh", bytes |-> hash]

Wsh(hash) == [tag |-> "Wsh", bytes |-> hash]

Tr(pk) == [tag |-> "Tr", bytes |-> pk]

Address_new(payload, network) == [payload |-> payload, network |-> network]

bech32_hrp(network) ==
    CASE network = "Mainnet" -> "bc"
      [] network = "Testnet" -> "tb"
      [] network = "Regtest" -> "bcrt"

\* LegacyPrefix with the main prefixes for every network but Testnet
LegacyPrefix_TestnetOnly(payload, network) ==
    CASE payload.tag = "Pkh" /\ network # "Testnet" -> PUBKEY_ADDRESS_PREFIX_MAIN
      [] payload.tag = "Sh" /\ network # "Testnet" -> SCRIPT_ADDRESS_PREFIX_MAIN
      [] payload.tag = "Pkh" /\ network = "Testnet" -> PUBKEY_ADDRESS_PREFIX_TEST
      [] payload.tag = "Sh" /\ network = "Testnet" -> SCRIPT_ADDRESS_PREFIX_TEST

\* the version byte of a legacy address
LegacyPrefix(payload, network) ==
    CASE payload.tag = "Pkh" /\ network = "Mainnet" -> PUBKEY_ADDRESS_PREFIX_MAIN
      [] payload.tag = "Sh" /\ network = "Mainnet" -> SCRIPT_ADDRESS_PREFIX_MAIN
      [] payload.tag = "Pkh" /\ network # "Mainnet" -> PUBKEY_ADDRESS_PREFIX_TEST
      [] payload.tag = "Sh" /\ network # "Mainnet" -> SCRIPT_ADDRESS_PREFIX_TEST

\* Address_fmt with taproot written in the Bech32 variant of version 0
Address_fmt_TrBech32(a, alt) ==
    IF a.payload.tag \in {"Pkh", "Sh"}
    THEN EncodeCheck(<<LegacyPrefix(a.payload, a.network)>> \o a.payload.bytes)
    ELSE LET version == IF a.payload.tag = "Tr" THEN 1 ELSE 0
             hrp     == bech32_hrp(a.network)
         IN  Bech32Str(IF alt THEN ToUppercase(hrp) ELSE hrp, "Bech32",
                       <<version>> \o ToBase32(a.payload.bytes))

\* impl Display for Address; alt is the formatter's alternate flag
Address_fmt(a, alt) ==
    IF a.payload.tag \in {"Pkh", "Sh"}
    THEN EncodeCheck(<<LegacyPrefix(a.payload, a.network)>> \o a.payload.bytes)
    ELSE LET version == IF a.payload.tag = "Tr" THEN 1 ELSE 0
             variant == IF a.payload.tag = "Tr" THEN "Bech32m" ELSE "Bech32"
             hrp     == bech32_hrp(a.network)
         IN  Bech32Str(IF alt THEN ToUppercase(hrp) ELSE hrp, variant,
                       <<version>> \o ToBase32(a.payload.bytes))

\* the closure parse_base58 of Address::from_str
parse_base58(s) ==
    IF s.len > 50
    THEN Err([kind |-> "Base58", detail |-> [kind |-> "InvalidLength",
                                            n |-> (s.len * 11) \div 15]])
    ELSE LET data == DecodeCheck(s) IN
      IF data.tag = "Err" THEN Err([kind |-> "Base58", detail |-> data.err])
      ELSE IF Len(data.val) # 21
      THEN Err([kind |-> "Base58", detail |-> [kind |-> "InvalidLength",
                                              n |-> Len(data.val)]])
      ELSE LET x    == data.val[1]
               hash == SubSeqFrom(data.val, 2)
           IN  IF x \notin {PUBKEY_ADDRESS_PREFIX_MAIN, SCRIPT_ADDRESS_PREFIX_MAIN,
                            PUBKEY_ADDRESS_PREFIX_TEST, SCRIPT_ADDRESS_PREFIX_TEST}
               THEN Err([kind |-> "InvalidAddressVersion", version |-> x])
               ELSE Ok(Address_new(
                       IF x \in {PUBKEY_ADDRESS_PREFIX_MAIN, PUBKEY_ADDRESS_PREFIX_TEST}
                       THEN Pkh(hash) ELSE Sh(hash),
                       IF x \in {PUBKEY_ADDRESS_PREFIX_MAIN, SCRIPT_ADDRESS_PREFIX_MAIN}
                       THEN "Mainnet" ELSE "Testnet"))

\* WitnessDispatch with the version 0 arms taking any variant
WitnessDispatch_AnyVariant(s, network, version, variant, program) ==
    IF version = 0 /\ Len(program) = 20
    THEN Ok(Address_new(Wpkh(program), network))
    ELSE IF version = 0 /\ Len(program) = 32
    THEN Ok(Address_new(Wsh(program), network))
    ELSE IF version = 1 /\ variant = "Bech32m" /\ Len(program) = 32
    THEN LET pk == TaprootPk_from_byte_array(program)
         IN  IF pk.tag = "Err" THEN pk
             ELSE Ok(Address_new(Tr(pk.val), network))
    ELSE IF version = 1 /\ variant = "Bech32m"
    THEN Err([kind |-> "FutureTaprootVersion", n |-> Len(program), s |-> s])
    ELSE IF version \in {0, 1}
    THEN Err([kind |-> "InvalidBech32Variant", variant |-> variant])
    ELSE Err([kind |-> "FutureWitnessVersion", version |-> version])

\* WitnessDispatch without the arm for taproot programs of another length
WitnessDispatch_NoFutureTaproot(s, network, version, variant, program) ==
    IF version = 0 /\ variant = "Bech32" /\ Len(program) = 20
    THEN Ok(Address_new(Wpkh(program), network))
    ELSE IF version = 0 /\ variant = "Bech32" /\ Len(program) = 32
    THEN Ok(Address_new(Wsh(program), network))
    ELSE IF version = 1 /\ variant = "Bech32m" /\ Len(program) = 32
    THEN LET pk == TaprootPk_from_byte_array(program)
         IN  IF pk.tag = "Err" THEN pk
             ELSE Ok(Address_new(Tr(pk.val), network))
    ELSE IF version \in {0, 1}
    THEN Err([kind |-> "InvalidBech32Variant", variant |-> variant])
    ELSE Err([kind |-> "FutureWitnessVersion", version |-> version])

\* the match on (version, variant) with its length guards in parse_bech32
WitnessDispatch(s, network, version, variant, program) ==
    IF version = 0 /\ variant = "Bech32" /\ Len(program) = 20
    THEN Ok(Address_new(Wpkh(program), network))
    ELSE IF version = 0 /\ variant = "Bech32" /\ Len(program) = 32
    THEN Ok(Address_new(Wsh(program), network))
    ELSE IF version = 1 /\ variant = "Bech32m" /\ Len(program) = 32
    THEN LET pk == TaprootPk_from_byte_array(program)
         IN  IF pk.tag = "Err" THEN pk
             ELSE Ok(Address_new(Tr(pk.val), network))
    ELSE IF version = 1 /\ variant = "Bech32m"
    THEN Err([kind |-> "FutureTaprootVersion", n |-> Len(program), s |-> s])
    ELSE IF version \in {0, 1}
    THEN Err([kind |-> "InvalidBech32Variant", variant |-> variant])
    ELSE Err([kind |-> "FutureWitnessVersion", version |-> version])

\* the closure parse_bech32 of Address::from_str
parse_bech32(s, hri, payload, variant) ==
    IF hri \notin {"bc", "BC", "tb", "TB", "bcrt", "BCRT"} THEN parse_base58(s)
    ELSE LET network == CASE hri \in {"bc", "BC"} -> "Mainnet"
                          [] hri \in {"tb", "TB"} -> "Testnet"
                          [] hri \in {"bcrt", "BCRT"} -> "Regtest"
         IN  IF Len(payload) < 1 THEN Panic("split_at: mid > len")
             ELSE LET wv == payload[1]
                      p5 == SubSeqFrom(payload, 2)
                  IN  IF wv > 16
                      THEN Err([kind |-> "InvalidWitnessVersion", version |-> wv])
                      ELSE LET program == FromBase32(p5)
                           IN  IF program.tag = "Err" THEN program
                               ELSE WitnessDispatch(s, network, wv, variant, program.val)

\* impl FromStr for Address
Address_from_str(s) ==
    LET decoded == Bech32Decode(s)
    IN  IF decoded.tag = "Ok"
        THEN parse_bech32(s, decoded.val.hri, decoded.val.payload, decoded.val.variant)
        ELSE LET legacy == parse_base58(s)
             IN  IF legacy.tag = "Err"
                 THEN Err([kind |-> "UnrecognizableFormat", s |-> s])
                 ELSE legacy

(************************** locking scripts *******************************)

\* ScriptPubkey::p2pkh: OP_DUP OP_HASH160 <20 bytes> OP_EQUALVERIFY OP_CHECKSIG
ScriptPubkey_p2pkh(hash) == <<118, 169, 20>> \o hash \o <<136, 172>>

\* ScriptPubkey::p2sh: OP_HASH160 <20 bytes> OP_EQUAL
ScriptPubkey_p2sh(hash) == <<169, 20>> \o hash \o <<135>>

\* ScriptPubkey::p2wpkh: OP_0 <20 bytes>
ScriptPubkey_p2wpkh(hash) == <<0, 20>> \o hash

\* ScriptPubkey::p2wsh: OP_0 <32 bytes>
ScriptPubkey_p2wsh(hash) == <<0, 32>> \o hash

\* ScriptPubkey::p2tr_tweaked: OP_1 <32 bytes>
ScriptPubkey_p2tr_tweaked(output_key) == <<81, 32>> \o output_key

is_p2pkh(script) ==
    /\ Len(script) = 25
    /\ script[1] = 118 /\ script[2] = 169 /\ script[3] = 20
    /\ script[24] = 136 /\ script[25] = 172

is_p2sh(script) ==
    Len(script) = 23 /\ script[1] = 169 /\ script[2] = 20 /\ script[23] = 135

is_p2wpkh(script) == Len(script) = 22 /\ script[1] = 0 /\ script[2] = 20

is_p2wsh(script) == Len(script) = 34 /\ script[1] = 0 /\ script[2] = 32

is_p2tr(script) == Len(script) = 34 /\ script[1] = 81 /\ script[2] = 32

\* [0u8; n].copy_from_slice(src): aborts unless src is n bytes long
CopyFromSlice(n, src) ==
    IF Len(src) # n
    THEN Panic("source slice length does not match destination slice length")
    ELSE Ok(src)

\* AddressPayload::from_script; script[a..b] is bytes a+1..b of the sequence
AddressPayload_from_script(script) ==
    IF is_p2pkh(script)
    THEN LET bytes == CopyFromSlice(20, SubSeq(script, 4, 23))
         IN  IF bytes.tag = "Panic" THEN bytes ELSE Ok(Pkh(bytes.val))
    ELSE IF is_p2sh(script)
    THEN LET bytes == CopyFromSlice(20, SubSeqFrom(script, 3))
         IN  IF bytes.tag = "Panic" THEN bytes ELSE Ok(Sh(bytes.val))
    ELSE IF is_p2wpkh(script)
    THEN LET bytes == CopyFromSlice(20, SubSeqFrom(script, 3))
         IN  IF bytes.tag = "Panic" THEN bytes ELSE Ok(Wpkh(bytes.val))
    ELSE IF is_p2wsh(script)
    THEN LET bytes == CopyFromSlice(32, SubSeqFrom(script, 3))
         IN  IF bytes.tag = "Panic" THEN bytes ELSE Ok(Wsh(bytes.val))
    ELSE IF is_p2tr(script)
    THEN LET bytes == CopyFromSlice(32, SubSeqFrom(script, 3))
         IN  IF bytes.tag = "Panic" THEN bytes
             ELSE LET pk == TaprootPk_from_byte_array(bytes.val)
                  IN  IF pk.tag = "Err" THEN Err([kind |-> "InvalidTaprootKey"])
                      ELSE Ok(Tr(pk.val))
    ELSE Err([kind |-> "UnsupportedScriptPubkey"])

\* AddressPayload::script_pubkey
AddressPayload_script_pubkey(self) ==
    CASE self.tag = "Pkh" -> ScriptPubkey_p2pkh(self.bytes)
      [] self.tag = "Sh" -> ScriptPubkey_p2sh(self.bytes)
      [] self.tag = "Wpkh" -> ScriptPubkey_p2wpkh(self.bytes)
      [] self.tag = "Wsh" -> ScriptPubkey_p2wsh(self.bytes)
      [] self.tag = "Tr" -> ScriptPubkey_p2tr_tweaked(self.bytes)

(************************* extended public keys ***************************)

XPUB_MAINNET_MAGIC == <<4, 136, 178, 30>>

XPUB_TESTNET_MAGIC == <<4, 53, 135, 207>>

\* u8::MAX
U8Max == 255

\* the largest normal index, 2^31 - 1
MaxNormalIndex == 2147483647

\* a DerivationIndex: the hardened flag is bit 31 of the u32, idx the low 31 bits
Normal(i) == [hardened |-> FALSE, idx |-> i]

Hardened(i) == [hardened |-> TRUE, idx |-> i]

\* HardenedIndex::ZERO and HardenedIndex::ONE as derivation indexes
HardenedZero == Hardened(0)

HardenedOne == Hardened(1)

\* DerivationIndex::index().to_be_bytes()
IndexToBeBytes(ci) ==
    <<(IF ci.hardened THEN 128 ELSE 0) + (ci.idx \div 16777216),
      (ci.idx \div 65536) % 256, (ci.idx \div 256) % 256, ci.idx % 256>>

\* u32::from_be_bytes(..).into(): a DerivationIndex from 4 big-endian bytes
IndexFromBeBytes(b) ==
    [hardened |-> b[1] >= 128,
     idx |-> (b[1] % 128) * 16777216 + b[2] * 65536 + b[3] * 256 + b[4]]

\* a secp256k1 point: its x coordinate and whether its y is odd
Point(x, odd) == [x |-> x, odd |-> odd]

\* PublicKey::from_slice on 33 bytes: a compressed point, tag 02 (even y)
\* or 03 (odd y) and a valid x coordinate
PublicKey_from_slice(b) ==
    IF Len(b) = 33 /\ b[1] \in {2, 3} /\ IsCurveX(SubSeqFrom(b, 2))
    THEN Ok(Point(SubSeqFrom(b, 2), b[1] = 3))
    ELSE Err([kind |-> "InvalidPublicKey"])

\* PublicKey::serialize: the 33-byte compressed form
PublicKey_serialize(pk) == <<IF pk.odd THEN 3 ELSE 2>> \o pk.x

\* Xpub::decode with the public key validated before the magic is looked at
Xpub_decode_KeyFirst(data) ==
    IF Len(data) # 78
    THEN Err([kind |-> "WrongExtendedKeyLength", n |-> Len(data)])
    ELSE LET magic == SubSeq(data, 1, 4)
             public_key == PublicKey_from_slice(SubSeq(data, 46, 78)) IN
      IF public_key.tag = "Err" THEN public_key
      ELSE IF magic # XPUB_MAINNET_MAGIC /\ magic # XPUB_TESTNET_MAGIC
      THEN Err([kind |-> "UnknownKeyType", magic |-> magic])
      ELSE Ok([testnet |-> (magic = XPUB_TESTNET_MAGIC),
               meta |-> [depth |-> data[5],
                         parent_fp |-> SubSeq(data, 6, 9),
                         child_number |-> IndexFromBeBytes(SubSeq(data, 10, 13))],
               core |-> [public_key |-> public_key.val,
                         chain_code |-> SubSeq(data, 14, 45)]])

\* Xpub::decode
Xpub_decode(data) ==
    IF Len(data) # 78
    THEN Err([kind |-> "WrongExtendedKeyLength", n |-> Len(data)])
    ELSE LET magic == SubSeq(data, 1, 4) IN
      IF magic # XPUB_MAINNET_MAGIC /\ magic # XPUB_TESTNET_MAGIC
      THEN Err([kind |-> "UnknownKeyType", magic |-> magic])
      ELSE LET public_key == PublicKey_from_slice(SubSeq(data, 46, 78)) IN
        IF public_key.tag = "Err" THEN public_key
        ELSE Ok([testnet |-> (magic = XPUB_TESTNET_MAGIC),
                 meta |-> [depth |-> data[5],
                           parent_fp |-> SubSeq(data, 6, 9),
                           child_number |-> IndexFromBeBytes(SubSeq(data, 10, 13))],
                 core |-> [public_key |-> public_key.val,
                           chain_code |-> SubSeq(data, 14, 45)]])

\* Xpub::encode with the child number written least significant byte first
Xpub_encode_LittleEndian(self) ==
    (IF self.testnet THEN XPUB_TESTNET_MAGIC ELSE XPUB_MAINNET_MAGIC)
    \o <<self.meta.depth>>
    \o self.meta.parent_fp
    \o [i \in 1..4 |-> IndexToBeBytes(self.meta.child_number)[5 - i]]
    \o self.core.chain_code
    \o PublicKey_serialize(self.core.public_key)

\* Xpub::encode
Xpub_encode(self) ==
    (IF self.testnet THEN XPUB_TESTNET_MAGIC ELSE XPUB_MAINNET_MAGIC)
    \o <<self.meta.depth>>
    \o self.meta.parent_fp
    \o IndexToBeBytes(self.meta.child_number)
    \o self.core.chain_code
    \o PublicKey_serialize(self.core.public_key)

\* impl Display for Xpub
Xpub_fmt(self) == EncodeCheck(Xpub_encode(self))

\* impl FromStr for Xpub
Xpub_from_str(inp) ==
    LET data == DecodeCheck(inp) IN
    IF data.tag = "Err" THEN Err([kind |-> "Base58", detail |-> data.err])
    ELSE LET x == Xpub_decode(data.val) IN
         IF x.tag = "Err" THEN Err([kind |-> "Decode", detail |-> x.err]) ELSE x

\* stand-in for hash160 (RIPEMD160 of SHA-256): 20 bytes
Hash160(data) ==
    LET w == WeightedSum(data) IN [j \in 1..20 |-> ((w \div j) + 31 * j) % 256]

\* stand-in for HMAC-SHA512: 64 bytes
HmacSha512(key, msg) ==
    LET k == WeightedSum(key)
        m == WeightedSum(msg)
    IN  [j \in 1..64 |-> ((k \div j) + m * j + (m \div 256) + j) % 256]

\* Xpub::identifier
Xpub_identifier(self) == Hash160(PublicKey_serialize(self.core.public_key))

\* Xpub::fingerprint
Xpub_fingerprint(self) == SubSeq(Xpub_identifier(self), 1, 4)

\* Xpub::ckd_pub_tweak; child_no is a normal index
Xpub_ckd_pub_tweak(self, child_no) ==
    LET hmac_result == HmacSha512(self.core.chain_code,
                           PublicKey_serialize(self.core.public_key)
                           \o IndexToBeBytes(Normal(child_no)))
    IN  [scalar |-> SubSeq(hmac_result, 1, 32),
         chain_code |-> SubSeq(hmac_result, 33, 64)]

\* stand-in for PublicKey::add_exp_tweak: the point pk + scalar*G
AddExpTweak(pk, scalar) ==
    Point(<<((pk.x[1] + scalar[1]) % 254) + 1>>
          \o [j \in 1..31 |-> (pk.x[j + 1] + scalar[j + 1]) % 256],
          pk.odd # (scalar[32] % 2 = 1))

\* Xpub::ckd_pub.  depth is a u8 and depth + 1 is unguarded: at 255 a build
\* with overflow checks aborts and one without wraps to 0
Xpub_ckd_pub(self, child_no, overflow_checks) ==
    LET tw == Xpub_ckd_pub_tweak(self, child_no) IN
    IF tw.scalar = Fill(32, 0) THEN Panic("negligible probability")
    ELSE IF self.meta.depth = U8Max /\ overflow_checks
    THEN Panic("attempt to add with overflow")
    ELSE Ok([testnet |-> self.testnet,
             meta |-> [depth |-> (self.meta.depth + 1) % (U8Max + 1),
                       parent_fp |-> Xpub_fingerprint(self),
                       child_number |-> Normal(child_no)],
             core |-> [public_key |-> AddExpTweak(self.core.public_key, tw.scalar),
                       chain_code |-> tw.chain_code]])

RECURSIVE Xpub_derive_pub(_, _, _)
\* Xpub::derive_pub: ckd_pub folded over the path, left to right
Xpub_derive_pub(self, path, overflow_checks) ==
    IF path = <<>> THEN Ok(self)
    ELSE LET pk == Xpub_ckd_pub(self, Head(path), overflow_checks)
         IN  IF pk.tag # "Ok" THEN pk
             ELSE Xpub_derive_pub(pk.val, Tail(path), overflow_checks)

(******************** key origins and descriptors *************************)

\* one '/'-separated piece of an origin string: "m", eight hex digits (fp),
\* a derivation index with or without the hardened mark, or anything else
Seg(t, fp, ix) == [t |-> t, fp |-> fp, index |-> ix]

SegM == Seg("m", <<>>, Normal(0))

SegHex(fp) == Seg("hex", fp, Normal(0))

SegIdx(ix) == Seg("idx", <<>>, ix)

SegJunk == Seg("junk", <<>>, Normal(0))

\* XpubFp::default()
XpubFp_default == Fill(4, 0)

\* XpubFp::from_str: eight hex digits
XpubFp_from_str(seg) ==
    IF seg.t = "hex" THEN Ok(seg.fp) ELSE Err([kind |-> "InvalidMasterFp"])

\* DerivationPath::from_str on the pieces of the path text; the empty text
\* is the empty path
DerivationPath_from_str(segs) ==
    IF \E i \in 1..Len(segs) : segs[i].t # "idx"
    THEN Err([kind |-> "DerivationPath"])
    ELSE Ok([i \in 1..Len(segs) |-> segs[i].index])

\* XpubOrigin::from_str with the fingerprint piece never read
XpubOrigin_from_str_ZeroFp(segs) ==
    LET derivation == DerivationPath_from_str(IF Len(segs) = 1 THEN <<>> ELSE Tail(segs))
    IN  IF derivation.tag = "Err" THEN derivation
        ELSE Ok([master_fp |-> XpubFp_default, derivation |-> derivation.val])

\* impl FromStr for XpubOrigin; segs are the pieces of s between its '/'
XpubOrigin_from_str(segs) ==
    LET split == IF Len(segs) = 1
                 THEN Ok([master_fp |-> XpubFp_default, path |-> <<>>])
                 ELSE IF segs[1] \in {SegHex(Fill(4, 0)), SegM}
                 THEN Ok([master_fp |-> XpubFp_default, path |-> Tail(segs)])
                 ELSE LET fp == XpubFp_from_str(segs[1])
                      IN  IF fp.tag = "Err" THEN fp
                          ELSE Ok([master_fp |-> fp.val, path |-> Tail(segs)])
    IN  IF split.tag = "Err" THEN split
        ELSE LET derivation == DerivationPath_from_str(split.val.path)
             IN  IF derivation.tag = "Err" THEN derivation
                 ELSE Ok([master_fp |-> split.val.master_fp,
                          derivation |-> derivation.val])

\* a descriptor string: whether it starts with '[', whether a ']' follows,
\* the pieces of the text between them and the text after
DescriptorStr(open, close, origin, xpub) ==
    [open |-> open, close |-> close, origin |-> origin, xpub |-> xpub]

\* impl Display for DerivationPath: '/' and the index, for every element
DerivationPath_fmt(path) == [i \in 1..Len(path) |-> SegIdx(path[i])]

\* impl Display for XpubOrigin, "{master_fp}{derivation}": eight hex digits
\* and the path
XpubOrigin_fmt(self) == <<SegHex(self.master_fp)>> \o DerivationPath_fmt(self.derivation)

\* impl Display for XpubDescriptor, "[{origin}]{xpub}"
XpubDescriptor_fmt(self) ==
    DescriptorStr(TRUE, TRUE, XpubOrigin_fmt(self.origin), Xpub_fmt(self.xpub))

\* DescriptorChecks without the comparison with the xpub's child number
DescriptorChecks_NoParent(d) ==
    IF Len(d.origin.derivation) # d.xpub.meta.depth
    THEN Err([kind |-> "DepthMismatch"])
    ELSE IF d.origin.derivation # <<>>
    THEN LET network == IF d.xpub.testnet THEN HardenedOne ELSE HardenedZero
             last    == d.origin.derivation[Len(d.origin.derivation)]
         IN  IF last # network THEN Err([kind |-> "DepthMismatch"])
             ELSE Ok(d)
    ELSE Ok(d)

\* the consistency checks of XpubDescriptor::from_str on the parsed parts
DescriptorChecks(d) ==
    IF Len(d.origin.derivation) # d.xpub.meta.depth
    THEN Err([kind |-> "DepthMismatch"])
    ELSE IF d.origin.derivation # <<>>
    THEN LET network == IF d.xpub.testnet THEN HardenedOne ELSE HardenedZero
             last    == d.origin.derivation[Len(d.origin.derivation)]
         IN  IF last # network THEN Err([kind |-> "DepthMismatch"])
             ELSE IF last # d.xpub.meta.child_number
             THEN Err([kind |-> "DepthMismatch"])
             ELSE Ok(d)
    ELSE Ok(d)

\* impl FromStr for XpubDescriptor
XpubDescriptor_from_str(s) ==
    IF ~s.open \/ ~s.close THEN Err([kind |-> "NoOrigin"])
    ELSE LET origin == XpubOrigin_from_str(s.origin) IN
      IF origin.tag = "Err" THEN origin
      ELSE LET xpub == Xpub_from_str(s.xpub) IN
        IF xpub.tag = "Err" THEN xpub
        ELSE DescriptorChecks([origin |-> origin.val, xpub |-> xpub.val])

(***************************** derivation *********************************)

\* impl Derive<ComprPubkey> for XpubDescriptor: the key at change/index
derive(self, change, idx, overflow_checks) ==
    LET pk == Xpub_derive_pub(self.xpub, <<change, idx>>, overflow_checks)
    IN  IF pk.tag # "Ok" THEN pk ELSE Ok(pk.val.core.public_key)

\* Idx::checked_inc_assign on a NormalIndex: the next index, or none when
\* the increment leaves the normal range
checked_inc_assign(i) ==
    IF i >= MaxNormalIndex THEN [some |-> FALSE, index |-> i]
    ELSE [some |-> TRUE, index |-> i + 1]

(******************************* inputs ***********************************)

\* program lengths tried besides 0, 2, 20 and 32: up to this far above them
MaxProgExtra == 1

\* longest derivation path written in an origin
MaxPathLen == 2

\* start indexes of a batch: 0, and the last MaxFromGap + 1 normal indexes
MaxFromGap == 2

\* max_count of a batch: 0..MaxSmallCount, and u8::MAX
MaxSmallCount == 3

SeqsUpTo(S, n) == UNION {[1..k -> S] : k \in 0..n}

Hashes20 == {Fill(20, 0), Fill(20, 255), Ramp(20, 11)}

Hashes32 == {Fill(32, 0), Ramp(32, 5)}

Payloads ==
    {Pkh(h) : h \in Hashes20} \cup {Sh(h) : h \in Hashes20}
    \cup {Wpkh(h) : h \in Hashes20} \cup {Wsh(h) : h \in Hashes32}
    \cup {Tr(k) : k \in {FixtureKey, GeneratorX}}

Addresses == {Address_new(p, n) : p \in Payloads, n \in AddressNetwork}

ProgramLens ==
    {0, 2, 20, 32} \cup {20 + k : k \in 1..MaxProgExtra}
    \cup {32 + k : k \in 1..MaxProgExtra}

Programs ==
    {Ramp(n, 3) : n \in ProgramLens} \cup {Fill(20, 0), Fill(32, 255), FixtureKey}

\* first 5-bit groups: witness versions 0..16 and values a version cannot take
VersionGroups == {0, 1, 2, 16, 17, 31}

\* 5-bit groups after the version that do not regroup to whole bytes
BadPadding == {<<1>>, <<0, 1>>, <<31, 31, 31>>}

DataParts ==
    {<<>>} \cup {<<v>> \o ToBase32(p) : v \in VersionGroups, p \in Programs}
    \cup {<<v>> \o g : v \in VersionGroups, g \in BadPadding}

Hrps == {"bc", "tb", "bcrt", "a", "lnbc"}

Bech32Inputs ==
    {Bech32Str(h, v, d) : h \in Hrps, v \in Variants, d \in DataParts}

\* a checksum that does not match
BadSum(payload) == [k \in 1..4 |-> (Checksum(payload)[k] + 1) % 256]

LegacyPayloads ==
    {<<x>> \o h : x \in {0, 5, 111, 196, 1, 255},
                  h \in {Fill(20, 0), Ramp(20, 11), Fill(19, 7), Fill(21, 7)}}
    \cup {<<>>, Fill(40, 9)}

Base58Inputs ==
    {EncodeCheck(p) : p \in LegacyPayloads}
    \cup {Base58Str(p \o BadSum(p)) : p \in LegacyPayloads}
    \cup {Base58Str(<<1, 2>>)}

OtherInputs == {OtherStr(0), OtherStr(12), OtherStr(60)}

\* what Address::from_str is called with: any text, and what Display wrote
AddressInputs ==
    Bech32Inputs \cup Base58Inputs \cup OtherInputs
    \cup {Address_fmt(a, alt) : a \in Addresses, alt \in BOOLEAN}

\* what AddressPayload::from_script is called with: the scripts of the
\* payloads, taproot shapes without a key, and scripts of no address
ScriptInputs ==
    {AddressPayload_script_pubkey(p) : p \in Payloads}
    \cup {ScriptPubkey_p2tr_tweaked(Fill(32, 0)), ScriptPubkey_p2tr_tweaked(Fill(32, 255))}
    \cup {<<>>, <<106>>, <<82, 32>> \o Ramp(32, 5), <<0, 20>> \o Fill(19, 1),
          <<118, 169, 20>> \o Fill(20, 0) \o <<136, 135>>,
          <<169, 20>> \o Fill(20, 0) \o <<136>>}

PublicKeys == {Point(GeneratorX, FALSE), Point(FixtureKey, TRUE)}

IndexPool == {Hardened(0), Hardened(1), Hardened(44), Normal(0)}

ChildNumbers == IndexPool \cup {Normal(MaxNormalIndex), Hardened(16909060)}

Fingerprints == {Fill(4, 0), <<222, 173, 190, 239>>}

Depths == {0, 1, 2, U8Max}

\* the extended public keys of the model
Xpubs ==
    {[testnet |-> tn,
      meta |-> [depth |-> d, parent_fp |-> fp, child_number |-> cn],
      core |-> [public_key |-> pk, chain_code |-> Ramp(32, 3)]] :
        tn \in BOOLEAN, d \in Depths, fp \in Fingerprints,
        cn \in ChildNumbers, pk \in PublicKeys}

\* a buffer with one field of an encoding overwritten
Patch(b, at, bytes) ==
    [i \in 1..Len(b) |-> IF i >= at /\ i < at + Len(bytes) THEN bytes[i - at + 1] ELSE b[i]]

\* what Xpub::decode is called with
XpubBuffers ==
    LET good == {Xpub_encode(x) : x \in Xpubs}
        some == Xpub_encode(CHOOSE x \in Xpubs : x.meta.depth = 1)
    IN  good
        \cup {SubSeq(some, 1, 77), some \o <<0>>, <<>>}
        \cup {Patch(some, 1, <<4, 136, 173, 228>>), Patch(some, 46, <<4>>),
              Patch(some, 47, <<255>>), Patch(some, 46, <<0>>)}
        \cup {Patch(Patch(some, 1, <<4, 136, 173, 228>>), 46, <<4>>),
              SubSeq(Patch(some, 1, <<4, 136, 173, 228>>), 1, 77),
              Patch(some, 46, <<4>>) \o <<0>>}

\* what Xpub::from_str is called with
XpubInputs ==
    {EncodeCheck(b) : b \in XpubBuffers}
    \cup {Base58Str(b \o BadSum(b)) : b \in {Xpub_encode(x) : x \in Xpubs}}
    \cup OtherInputs \cup {Bech32Str("bc", "Bech32", <<>>)}

\* the keys written in descriptors
DescriptorXpubs ==
    {x \in Xpubs : x.core.public_key = Point(GeneratorX, FALSE)
                   /\ x.meta.parent_fp # Fill(4, 0)}

PathTexts == SeqsUpTo({SegIdx(i) : i \in IndexPool}, MaxPathLen)

OriginTexts ==
    {<<f>> \o p : f \in {SegM, SegHex(Fill(4, 0)), SegHex(<<222, 173, 190, 239>>),
                        SegJunk},
                  p \in PathTexts}
    \cup (PathTexts \ {<<>>}) \cup {<<SegIdx(Hardened(0)), SegJunk>>}

\* the descriptor values: an origin and a key that agree on the depth, the
\* network and the child number
ValidDescriptors ==
    {d \in {[origin |-> [master_fp |-> fp, derivation |-> p], xpub |-> x] :
               fp \in Fingerprints, p \in SeqsUpTo(IndexPool, MaxPathLen),
               x \in DescriptorXpubs} :
        DescriptorChecks(d).tag = "Ok"}

\* what XpubDescriptor::from_str is called with
DescriptorInputs ==
    {DescriptorStr(TRUE, TRUE, o, x) : o \in OriginTexts,
        x \in {Xpub_fmt(k) : k \in DescriptorXpubs} \cup {OtherStr(12)}}
    \cup {DescriptorStr(b, c, <<SegM>>, OtherStr(12)) : b, c \in BOOLEAN}
    \cup {XpubDescriptor_fmt(d) : d \in ValidDescriptors}

\* the descriptors batches are derived from: those from_str returns for
\* the origins written as "m" and one index
Descriptors ==
    {d.val : d \in {r \in {XpubDescriptor_from_str(s) :
                             s \in {i \in DescriptorInputs :
                                      i.origin[1] = SegM /\ Len(i.origin) = 2}} :
                      r.tag = "Ok"}}

FromIndexes == {0} \cup {MaxNormalIndex - k : k \in 0..MaxFromGap}

MaxCounts == 0..MaxSmallCount \cup {U8Max}

(****************************** actions ***********************************)

Init ==
    /\ op = "new"
    /\ arg = [none |-> TRUE]
    /\ ret = [tag |-> "None"]
    /\ pc = "idle"
    /\ batch = <<>>
    /\ index = 0
    /\ count = 0

\* a call that runs to completion in one step
Call(name, a, r) ==
    /\ pc = "idle"
    /\ op = "new"
    /\ op' = name
    /\ arg' = a
    /\ ret' = r
    /\ UNCHANGED <<pc, batch, index, count>>

AddressDisplay ==
    /\ op = "new"
    /\ \E a \in Addresses, alt \in BOOLEAN :
        Call("Address_fmt", [addr |-> a, alt |-> alt], Ok(Address_fmt(a, alt)))

AddressFromStr ==
    /\ op = "new"
    /\ \E s \in AddressInputs :
        Call("Address_from_str", [s |-> s], Address_from_str(s))

PayloadScriptPubkey ==
    /\ op = "new"
    /\ \E p \in Payloads :
        Call("AddressPayload_script_pubkey", [payload |-> p],
             Ok(AddressPayload_script_pubkey(p)))

PayloadFromScript ==
    /\ op = "new"
    /\ \E s \in ScriptInputs :
        Call("AddressPayload_from_script", [script |-> s],
             AddressPayload_from_script(s))

XpubEncode ==
    /\ op = "new"
    /\ \E x \in Xpubs : Call("Xpub_encode", [xpub |-> x], Ok(Xpub_encode(x)))

XpubDecode ==
    /\ op = "new"
    /\ \E b \in XpubBuffers : Call("Xpub_decode", [data |-> b], Xpub_decode(b))

XpubDisplay ==
    /\ op = "new"
    /\ \E x \in Xpubs : Call("Xpub_fmt", [xpub |-> x], Ok(Xpub_fmt(x)))

XpubFromStr ==
    /\ op = "new"
    /\ \E s \in XpubInputs : Call("Xpub_from_str", [s |-> s], Xpub_from_str(s))

XpubCkdPub ==
    /\ op = "new"
    /\ \E x \in Xpubs, i \in {0, 1, MaxNormalIndex}, oc \in BOOLEAN :
        Call("Xpub_ckd_pub", [xpub |-> x, child_no |-> i, overflow_checks |-> oc],
             Xpub_ckd_pub(x, i, oc))

DescriptorFromStr ==
    /\ op = "new"
    /\ \E s \in DescriptorInputs :
        Call("XpubDescriptor_from_str", [s |-> s], XpubDescriptor_from_str(s))

DescriptorDisplay ==
    /\ op = "new"
    /\ \E d \in ValidDescriptors :
        Call("XpubDescriptor_fmt", [d |-> d], Ok(XpubDescriptor_fmt(d)))

OriginFromStr ==
    /\ op = "new"
    /\ \E o \in OriginTexts :
        Call("XpubOrigin_from_str", [segs |-> o], XpubOrigin_from_str(o))

\* Derive::derive_batch up to its loop
DeriveBatchCall ==
    /\ op = "new"
    /\ \E d \in Descriptors, change \in {0, 1}, from \in FromIndexes,
       max_count \in MaxCounts, oc \in BOOLEAN :
        /\ pc = "idle"
        /\ op = "new"
        /\ op' = "derive_batch"
        /\ arg' = [self |-> d, change |-> change, from |-> from,
                   max_count |-> max_count, overflow_checks |-> oc]
        /\ ret' = [tag |-> "None"]
        /\ pc' = "loop"
        /\ batch' = <<>>
        /\ index' = from
        /\ count' = 0

\* DeriveBatchLoop with the loop left when count > max_count
DeriveBatchLoop_StrictCompare ==
    /\ pc = "loop"
    /\ LET d   == derive(arg.self, arg.change, index, arg.overflow_checks)
           inc == checked_inc_assign(index)
       IN  IF d.tag # "Ok"
           THEN /\ ret' = d
                /\ pc' = "idle"
                /\ UNCHANGED <<batch, index, count>>
           ELSE IF count = U8Max /\ arg.overflow_checks
           THEN /\ ret' = Panic("attempt to add with overflow")
                /\ pc' = "idle"
                /\ batch' = Append(batch, d.val)
                /\ UNCHANGED <<index, count>>
           ELSE /\ batch' = Append(batch, d.val)
                /\ count' = (count + 1) % (U8Max + 1)
                /\ index' = inc.index
                /\ IF ~inc.some \/ count' > arg.max_count
                   THEN ret' = Ok(batch') /\ pc' = "idle"
                   ELSE UNCHANGED <<ret, pc>>
    /\ UNCHANGED <<op, arg>>

\* one pass of the loop of Derive::derive_batch
DeriveBatchLoop ==
    /\ pc = "loop"
    /\ LET d   == derive(arg.self, arg.change, index, arg.overflow_checks)
           inc == checked_inc_assign(index)
       IN  IF d.tag # "Ok"
           THEN /\ ret' = d
                /\ pc' = "idle"
                /\ UNCHANGED <<batch, index, count>>
           ELSE IF count = U8Max /\ arg.overflow_checks
           THEN /\ ret' = Panic("attempt to add with overflow")
                /\ pc' = "idle"
                /\ batch' = Append(batch, d.val)
                /\ UNCHANGED <<index, count>>
           ELSE /\ batch' = Append(batch, d.val)
                /\ count' = (count + 1) % (U8Max + 1)
                /\ index' = inc.index
                /\ IF ~inc.some \/ count' >= arg.max_count
                   THEN ret' = Ok(batch') /\ pc' = "idle"
                   ELSE UNCHANGED <<ret, pc>>
    /\ UNCHANGED <<op, arg>>

\* the caller drops the result of a finished call
Return ==
    /\ pc = "idle"
    /\ op # "new"
    /\ op' = "new"
    /\ arg' = [none |-> TRUE]
    /\ ret' = [tag |-> "None"]
    /\ batch' = <<>>
    /\ index' = 0
    /\ count' = 0
    /\ UNCHANGED pc

Next ==
    \/ Return
    \/ AddressDisplay
    \/ AddressFromStr
    \/ PayloadScriptPubkey
    \/ PayloadFromScript
    \/ XpubEncode
    \/ XpubDecode
    \/ XpubDisplay
    \/ XpubFromStr
    \/ XpubCkdPub
    \/ DescriptorFromStr
    \/ OriginFromStr
    \/ DescriptorDisplay
    \/ DeriveBatchCall
    \/ DeriveBatchLoop

Spec == Init /\ [][Next]_vars

\* the address codec alone
AddressNext ==
    \/ Return
    \/ AddressDisplay
    \/ AddressFromStr
    \/ PayloadScriptPubkey
    \/ PayloadFromScript

AddressSpec == Init /\ [][AddressNext]_vars

\* extended public keys alone
XpubNext ==
    Return \/ XpubEncode \/ XpubDecode \/ XpubDisplay \/ XpubFromStr \/ XpubCkdPub

XpubSpec == Init /\ [][XpubNext]_vars

\* descriptor parsing alone
DescriptorNext ==
    Return \/ DescriptorFromStr \/ OriginFromStr \/ DescriptorDisplay

DescriptorSpec == Init /\ [][DescriptorNext]_vars

\* batched derivation alone
BatchNext == Return \/ DeriveBatchCall \/ DeriveBatchLoop

BatchSpec == Init /\ [][BatchNext]_vars

\* batched derivation on a thread that keeps running: it executes the next
\* pass of the loop whenever there is one (weak fairness of DeriveBatchLoop,
\* with its enabling condition, pc = "loop", written out), and the caller
\* takes the result of a call that returned
BatchLiveSpec ==
    /\ BatchSpec
    /\ WF_vars(Return)
    /\ ([]<>(pc # "loop") \/ []<><<DeriveBatchLoop>>_vars)


(******************************* claims ***********************************)

\* C1 as stated: every address (five payload kinds, three networks) written
\* by Display parses back to the same payload and the same network.
C1_RoundTripAllNetworks ==
    op = "Address_from_str" =>
        \A a \in Addresses : arg.s = Address_fmt(a, FALSE) => ret = Ok(a)

\* what a legacy address keeps of its network: mainnet or not
LegacyNetwork(a) ==
    IF a.payload.tag \in {"Pkh", "Sh"} /\ a.network = "Regtest"
    THEN "Testnet" ELSE a.network

\* C1 amended: an address written by Display parses back to the same payload;
\* the network is the same too, except that a Pkh or Sh address of Regtest
\* parses back as Testnet (both share the version bytes 0x6f and 0xc4).
C1_RoundTrip ==
    op = "Address_from_str" =>
        \A a \in Addresses : arg.s = Address_fmt(a, FALSE) =>
            ret = Ok(Address_new(a.payload, LegacyNetwork(a)))

\* a taproot address of Regtest made the round trip
C1_Witness ==
    /\ op = "Address_from_str"
    /\ ret.tag = "Ok"
    /\ ret.val.payload.tag = "Tr"
    /\ ret.val.network = "Regtest"
    /\ arg.s = Address_fmt(ret.val, FALSE)

\* C2: Address::from_str returns Ok or a typed error for every input string,
\* whatever bech32::decode made of it; it never aborts.
C2_FromStrNeverPanics ==
    op = "Address_from_str" => ret.tag \in {"Ok", "Err"}

\* the parts of a descriptor string parse and the descriptor checks are reached
DescriptorPartsParse(s) ==
    /\ s.open /\ s.close
    /\ XpubOrigin_from_str(s.origin).tag = "Ok"
    /\ Xpub_from_str(s.xpub).tag = "Ok"

\* the index that stands for the network of an xpub: 0h mainnet, 1h testnet
NetworkIndex(xpub) == IF xpub.testnet THEN HardenedOne ELSE HardenedZero

\* C3: XpubDescriptor::from_str names the check that failed: DepthMismatch for
\* a path whose length is not the depth, NetworkMismatch for a last element
\* that is not the network's hardened index, ParentMismatch for a last element
\* that is not the xpub's child number.
C3_DistinctMismatchErrors ==
    (op = "XpubDescriptor_from_str" /\ DescriptorPartsParse(arg.s)) =>
        LET path == XpubOrigin_from_str(arg.s.origin).val.derivation
            xpub == Xpub_from_str(arg.s.xpub).val
        IN  IF Len(path) # xpub.meta.depth
            THEN ret = Err([kind |-> "DepthMismatch"])
            ELSE IF path # <<>> /\ path[Len(path)] # NetworkIndex(xpub)
            THEN ret = Err([kind |-> "NetworkMismatch"])
            ELSE IF path # <<>> /\ path[Len(path)] # xpub.meta.child_number
            THEN ret = Err([kind |-> "ParentMismatch"])
            ELSE TRUE

\* the invariant of a descriptor
DescriptorConsistent(d) ==
    /\ Len(d.origin.derivation) = d.xpub.meta.depth
    /\ d.origin.derivation # <<>> =>
         /\ d.origin.derivation[Len(d.origin.derivation)] = NetworkIndex(d.xpub)
         /\ d.origin.derivation[Len(d.origin.derivation)] = d.xpub.meta.child_number

\* C4: a descriptor XpubDescriptor::from_str returns has a path as long as the
\* xpub's depth whose last element, if any, is the network's hardened index
\* and the xpub's child number; an input whose parts break this is an error.
C4_DescriptorInvariant ==
    op = "XpubDescriptor_from_str" =>
        /\ ret.tag \in {"Ok", "Err"}
        /\ ret.tag = "Ok" => DescriptorConsistent(ret.val)
        /\ DescriptorPartsParse(arg.s) =>
             LET d == [origin |-> XpubOrigin_from_str(arg.s.origin).val,
                       xpub |-> Xpub_from_str(arg.s.xpub).val]
             IN  IF DescriptorConsistent(d) THEN ret = Ok(d) ELSE ret.tag = "Err"

\* a testnet descriptor with a path was accepted
C4_Witness ==
    /\ op = "XpubDescriptor_from_str"
    /\ ret.tag = "Ok"
    /\ ret.val.xpub.testnet
    /\ ret.val.origin.derivation = <<Hardened(44), Hardened(1)>>


\* C5: derive_batch(change, from, n) returns the n keys derive gives at from,
\* from + 1, ..., cut short only where the index leaves the normal range; it
\* has n elements when that does not happen, also for n = 0.
C5_BatchEquivalence ==
    (op = "derive_batch" /\ pc = "idle" /\ ret.tag = "Ok") =>
        LET n    == arg.max_count
            room == MaxNormalIndex - arg.from
            k    == IF room >= n THEN n ELSE room + 1
        IN  /\ Len(ret.val) = k
            /\ \A j \in 1..Len(ret.val) :
                 Ok(ret.val[j]) = derive(arg.self, arg.change, arg.from + (j - 1),
                                         arg.overflow_checks)

\* C6: for every depth 0..255 and normal index i, ckd_pub returns an xpub with
\* the parent's fingerprint, depth + 1 as an integer, child number i and the
\* parent's network flag; it neither wraps nor aborts.
C6_ChainConsistency ==
    op = "Xpub_ckd_pub" =>
        /\ ret.tag = "Ok"
        /\ ret.val.meta.parent_fp = Xpub_fingerprint(arg.xpub)
        /\ ret.val.meta.depth = arg.xpub.meta.depth + 1
        /\ ret.val.meta.child_number = Normal(arg.child_no)
        /\ ret.val.testnet = arg.xpub.testnet

\* C7: decode(encode(x)) = Ok(x) and from_str(to_string(x)) = Ok(x) for every
\* xpub x, and encode(decode(b)) = b for every buffer b decode accepts.
C7_XpubRoundTrip ==
    /\ op = "Xpub_decode" =>
         /\ \A x \in Xpubs : arg.data = Xpub_encode(x) => ret = Ok(x)
         /\ ret.tag = "Ok" => Xpub_encode(ret.val) = arg.data
    /\ op = "Xpub_from_str" =>
         \A x \in Xpubs : arg.s = Xpub_fmt(x) => ret = Ok(x)

\* a testnet key with a hardened child number was decoded from its encoding
C7_Witness ==
    /\ op = "Xpub_decode"
    /\ ret.tag = "Ok"
    /\ ret.val.testnet
    /\ ret.val.meta.child_number = Hardened(16909060)
    /\ arg.data = Xpub_encode(ret.val)

RecognisedHrps == {"bc", "tb", "bcrt"}

\* Address::from_str tries the legacy format for s
LegacyAttempted(s) ==
    \/ Bech32Decode(s).tag = "Err"
    \/ Bech32Decode(s).val.hri \notin RecognisedHrps

\* C8: wherever legacy parsing is tried and fails, after a failed bech32
\* decode or after one with an unknown prefix, the error is
\* UnrecognizableFormat with the input string.
C8_FallbackError ==
    (op = "Address_from_str" /\ LegacyAttempted(arg.s)
        /\ parse_base58(arg.s).tag = "Err") =>
        ret = Err([kind |-> "UnrecognizableFormat", s |-> arg.s])

\* s decodes as bech32 with a recognised prefix and at least the version group
SegwitInput(s) ==
    /\ Bech32Decode(s).tag = "Ok"
    /\ Bech32Decode(s).val.hri \in RecognisedHrps
    /\ Len(s.data) >= 1

\* version 0 in Bech32m or version 1 in Bech32
WrongVariant(s) ==
    \/ s.data[1] = 0 /\ s.variant = "Bech32m"
    \/ s.data[1] = 1 /\ s.variant = "Bech32"

\* the groups after the version regroup to whole bytes: the witness program
HasProgram(s) == FromBase32(SubSeqFrom(s.data, 2)).tag = "Ok"

ProgramOf(s) == FromBase32(SubSeqFrom(s.data, 2)).val

\* C9 as stated: every string with a recognised prefix that carries version 0
\* in Bech32m or version 1 in Bech32 fails with InvalidBech32Variant.
C9_WrongVariantAlways ==
    (op = "Address_from_str" /\ SegwitInput(arg.s) /\ WrongVariant(arg.s)) =>
        ret = Err([kind |-> "InvalidBech32Variant", variant |-> arg.s.variant])

\* C9 amended: such a string fails with InvalidBech32Variant carrying its
\* variant, for every program length, when the groups after the version
\* regroup to whole bytes; when they do not, the error is the Bech32 one.
C9_WrongVariant ==
    (op = "Address_from_str" /\ SegwitInput(arg.s) /\ WrongVariant(arg.s)) =>
        IF HasProgram(arg.s)
        THEN ret = Err([kind |-> "InvalidBech32Variant", variant |-> arg.s.variant])
        ELSE ret = Err([kind |-> "Bech32", detail |-> "InvalidPadding"])

\* a 32-byte version 1 program in Bech32 was refused for its variant
C9_Witness ==
    /\ op = "Address_from_str"
    /\ SegwitInput(arg.s) /\ HasProgram(arg.s)
    /\ arg.s.data[1] = 1 /\ arg.s.variant = "Bech32"
    /\ Len(ProgramOf(arg.s)) = 32
    /\ ret = Err([kind |-> "InvalidBech32Variant", variant |-> "Bech32"])

\* the first two parts of C10, which speak of a program
LengthsRefused(s, r) ==
    HasProgram(s) =>
        /\ (s.data[1] = 0 /\ Len(ProgramOf(s)) \notin {20, 32}) => r.tag = "Err"
        /\ (s.data[1] = 1 /\ s.variant = "Bech32m" /\ Len(ProgramOf(s)) # 32) =>
             r = Err([kind |-> "FutureTaprootVersion", n |-> Len(ProgramOf(s)),
                      s |-> s])

\* C10 as stated: a version 0 program of another length than 20 or 32 fails, a
\* version 1 Bech32m program of another length than 32 fails with
\* FutureTaprootVersion(length, string), and every string with a version in
\* 2..16 fails with FutureWitnessVersion(version).
C10_LengthsAndFutureAlways ==
    (op = "Address_from_str" /\ SegwitInput(arg.s)) =>
        /\ LengthsRefused(arg.s, ret)
        /\ arg.s.data[1] \in 2..16 =>
             ret = Err([kind |-> "FutureWitnessVersion", version |-> arg.s.data[1]])

\* C10 amended: the same, with FutureWitnessVersion for the strings of version
\* 2..16 whose groups after the version regroup to whole bytes; the others
\* fail with the Bech32 error.
C10_LengthsAndFuture ==
    (op = "Address_from_str" /\ SegwitInput(arg.s)) =>
        /\ LengthsRefused(arg.s, ret)
        /\ arg.s.data[1] \in 2..16 =>
             IF HasProgram(arg.s)
             THEN ret = Err([kind |-> "FutureWitnessVersion",
                             version |-> arg.s.data[1]])
             ELSE ret = Err([kind |-> "Bech32", detail |-> "InvalidPadding"])

\* a version 1 Bech32m program of 20 bytes was refused as a future taproot
C10_Witness ==
    /\ op = "Address_from_str"
    /\ SegwitInput(arg.s)
    /\ ret.tag = "Err"
    /\ ret.err.kind = "FutureTaprootVersion"
    /\ ret.err.n = 20
    /\ ret.err.s = arg.s

\* the magic of a buffer is one of the two known ones
KnownMagic(b) == SubSeq(b, 1, 4) \in {XPUB_MAINNET_MAGIC, XPUB_TESTNET_MAGIC}

\* C11: Xpub::decode refuses a buffer that is not 78 bytes long with
\* WrongExtendedKeyLength(len) whatever it holds, a 78-byte buffer with
\* another magic with UnknownKeyType(magic) whatever its key bytes are, a
\* 78-byte buffer with a known magic and an invalid key with
\* InvalidPublicKey, and accepts every other buffer.
C11_DecodeErrorOrder ==
    op = "Xpub_decode" =>
        IF Len(arg.data) # 78
        THEN ret = Err([kind |-> "WrongExtendedKeyLength", n |-> Len(arg.data)])
        ELSE IF ~KnownMagic(arg.data)
        THEN ret = Err([kind |-> "UnknownKeyType", magic |-> SubSeq(arg.data, 1, 4)])
        ELSE IF PublicKey_from_slice(SubSeq(arg.data, 46, 78)).tag = "Err"
        THEN ret = Err([kind |-> "InvalidPublicKey"])
        ELSE ret.tag = "Ok"

\* a 78-byte buffer with an unknown magic and an invalid key was refused for
\* its magic
C11_Witness ==
    /\ op = "Xpub_decode"
    /\ Len(arg.data) = 78
    /\ ~KnownMagic(arg.data)
    /\ PublicKey_from_slice(SubSeq(arg.data, 46, 78)).tag = "Err"
    /\ ret = Err([kind |-> "UnknownKeyType", magic |-> <<4, 136, 173, 228>>])

\* the derivation path the pieces write
PathOf(segs) == [i \in 1..Len(segs) |-> segs[i].index]

\* every piece is a derivation index
AllIndexes(segs) == \A i \in 1..Len(segs) : segs[i].t = "idx"

\* C12: XpubOrigin::from_str takes <fp>/<path> and a bare <path>.  The master
\* fingerprint is zero when the fingerprint piece is "m", "00000000" or absent
\* and the value of its hex digits otherwise (InvalidMasterFp when it is not
\* hex), and the derivation is the path written: a bare path is parsed as the
\* path, not dropped.
C12_OriginGrammar ==
    op = "XpubOrigin_from_str" =>
        LET segs == arg.segs IN
        /\ (Len(segs) >= 2 /\ segs[1].t \in {"m", "hex"} /\ AllIndexes(Tail(segs))) =>
             ret = Ok([master_fp |-> IF segs[1].t = "m" THEN Fill(4, 0) ELSE segs[1].fp,
                       derivation |-> PathOf(Tail(segs))])
        /\ (Len(segs) >= 2 /\ segs[1].t = "junk") =>
             ret = Err([kind |-> "InvalidMasterFp"])
        /\ AllIndexes(segs) =>
             ret = Ok([master_fp |-> Fill(4, 0), derivation |-> PathOf(segs)])

\* a script of one of the five shapes
KnownShape(script) ==
    \/ is_p2pkh(script) \/ is_p2sh(script) \/ is_p2wpkh(script)
    \/ is_p2wsh(script) \/ is_p2tr(script)

\* C13: from_script(script_pubkey(p)) = Ok(p) for every payload p, two
\* payloads never share a script, script_pubkey(from_script(s)) = s for every
\* script from_script accepts, a script of none of the five shapes fails with
\* UnsupportedScriptPubkey and a P2TR shape without a valid key with
\* InvalidTaprootKey.
C13_ScriptInverse ==
    /\ op = "AddressPayload_script_pubkey" =>
         \A q \in Payloads :
            q # arg.payload => AddressPayload_script_pubkey(q) # ret.val
    /\ op = "AddressPayload_from_script" =>
         /\ \A p \in Payloads :
                arg.script = AddressPayload_script_pubkey(p) => ret = Ok(p)
         /\ ret.tag = "Ok" => AddressPayload_script_pubkey(ret.val) = arg.script
         /\ ~KnownShape(arg.script) => ret = Err([kind |-> "UnsupportedScriptPubkey"])
         /\ (is_p2tr(arg.script) /\ ~IsCurveX(SubSeqFrom(arg.script, 3))) =>
                ret = Err([kind |-> "InvalidTaprootKey"])

\* what Display writes for each descriptor value
DisplayedDescriptors == [d \in ValidDescriptors |-> XpubDescriptor_fmt(d)]

\* C14: a descriptor with a path of at least one element, whatever its
\* master fingerprint, zero included, written by Display as
\* [<master_fp><derivation>]<xpub> parses back to itself.
C14_DescriptorRoundTrip ==
    op = "XpubDescriptor_from_str" =>
        \A d \in ValidDescriptors :
            (d.origin.derivation # <<>> /\ arg.s = DisplayedDescriptors[d]) =>
                ret = Ok(d)

\* a descriptor with a fingerprint and a path of two made the round trip
C14_Witness ==
    /\ op = "XpubDescriptor_from_str"
    /\ ret.tag = "Ok"
    /\ ret.val.origin.master_fp = <<222, 173, 190, 239>>
    /\ Len(ret.val.origin.derivation) = 2
    /\ arg.s = XpubDescriptor_fmt(ret.val)

\* C15: an xpub that Xpub::decode or Xpub::from_str returns with depth 0 has
\* the parent fingerprint 00000000 and the child index 0; a buffer with depth
\* 0 and another parent fingerprint or child index does not give such an xpub.
C15_MasterMeta ==
    (op \in {"Xpub_decode", "Xpub_from_str"} /\ ret.tag = "Ok"
        /\ ret.val.meta.depth = 0) =>
        /\ ret.val.meta.parent_fp = Fill(4, 0)
        /\ ret.val.meta.child_number = Normal(0)

\* C16: for a Pkh or Sh address, Display writes the Base58Check text of 21
\* bytes: the version byte, 0x00 for Pkh on Mainnet, 0x05 for Sh on Mainnet,
\* 0x6f for Pkh and 0xc4 for Sh on Testnet and Regtest, and then the 20 bytes
\* of the hash; the alternate flag makes no difference.
C16_LegacyVersionTable ==
    (op = "Address_fmt" /\ arg.addr.payload.tag \in {"Pkh", "Sh"}) =>
        LET a       == arg.addr
            version == CASE a.payload.tag = "Pkh" /\ a.network = "Mainnet" -> 0
                         [] a.payload.tag = "Sh" /\ a.network = "Mainnet" -> 5
                         [] a.payload.tag = "Pkh" /\ a.network \in {"Testnet", "Regtest"} -> 111
                         [] a.payload.tag = "Sh" /\ a.network \in {"Testnet", "Regtest"} -> 196
            written == DecodeCheck(ret.val)
        IN  /\ ret.tag = "Ok"
            /\ ret.val.kind = "base58"
            /\ written.tag = "Ok"
            /\ Len(written.val) = 21
            /\ written.val[1] = version
            /\ SubSeqFrom(written.val, 2) = a.payload.bytes
            /\ ret.val = Address_fmt(a, ~arg.alt)

\* a script hash address of Regtest was written with the alternate flag
C16_Witness ==
    /\ op = "Address_fmt"
    /\ arg.addr.payload.tag = "Sh"
    /\ arg.addr.network = "Regtest"
    /\ arg.alt
    /\ ret.tag = "Ok"
    /\ ret.val.bytes[1] = 196
    /\ Len(ret.val.bytes) = 25

\* C17: Address::from_str reports InvalidBech32Variant(v) only for a string
\* of version 0 in Bech32m or of version 1 in Bech32, with v its variant; a
\* string in the right variant for its version whose program has a length
\* that is not supported (version 0, Bech32, neither 20 nor 32 bytes) is
\* never reported as InvalidBech32Variant.
C17_VariantErrorOnlyForWrongVariant ==
    (op = "Address_from_str" /\ ret.tag = "Err"
        /\ ret.err.kind = "InvalidBech32Variant") =>
        /\ SegwitInput(arg.s)
        /\ WrongVariant(arg.s)
        /\ ret.err.variant = arg.s.variant

\* the bounds of a batch in progress or finished: no abort, a counter and a
\* number of derive calls of at most 255, a normal index, keys derived at
\* from, from + 1, ... in this order (the key just pushed in a pass, all of
\* them at the end), and a stop once 2^31 - 1 is derived
BatchBounds ==
    op = "derive_batch" =>
        /\ ret.tag # "Panic"
        /\ count <= 255
        /\ Len(batch) = count
        /\ index \in 0..MaxNormalIndex
        /\ \A j \in {k \in 1..Len(batch) : pc = "idle" \/ k = Len(batch)} :
             /\ j - 1 <= MaxNormalIndex - arg.from
             /\ Ok(batch[j]) = derive(arg.self, arg.change, arg.from + (j - 1),
                                      arg.overflow_checks)
        /\ pc = "loop" => index = arg.from + count
        /\ pc = "idle" => ret = Ok(batch)
        /\ (count >= 1 /\ count - 1 = MaxNormalIndex - arg.from) => pc = "idle"

\* C18: for every change, normal start index and max_count in 0..255 the
\* loop of derive_batch ends, after at most 255 calls of derive; its u8
\* counter stays within 255, the indexes derived are normal and consecutive
\* from the start index, and the loop ends after deriving index 2^31 - 1
\* instead of wrapping.
C18_LoopBounds == [](BatchBounds) /\ ((pc = "loop") ~> (pc = "idle"))

\* a batch of up to 255 that started one below the last normal index ended
\* with two keys
C18_Witness ==
    /\ op = "derive_batch"
    /\ pc = "idle"
    /\ arg.from = MaxNormalIndex - 1
    /\ arg.max_count = 255
    /\ ret = Ok(batch)
    /\ Len(batch) = 2
    /\ index = MaxNormalIndex

====
